---- MODULE Spec2Model ----
(***************************************************************************)
(* Model of the river-transect post-processing code:                       *)
(*   helpers.py            calculate_distance, calculate_path_distances,   *)
(*                         find_element_from_coordinates (pre-filtered),   *)
(*                         get_value_for_element                           *)
(*   eastings_to_graph.py  find_element_from_coordinates (full scan)       *)
(*   river_transect.py     class RiverTransect                             *)
(*                                                                         *)
(* Numbers are integers.  Coordinates are drawn so that every Euclidean    *)
(* distance the code takes a square root of is a perfect square, hence     *)
(* np.sqrt is exact on them.  Standard deviations are in tenths, the WFD   *)
(* thresholds in units of 0.00001.  The floats of the percentile formula   *)
(* are denoted by their arguments; exp(log(m)) is m up to one rounding     *)
(* step, whichever way the build's exp and log round.                      *)
(***************************************************************************)
EXTENDS Integers, Sequences, FiniteSets, TLC

VARIABLES
    mesh,          \* the geometry dataset: NetNode_x, NetNode_y, NetElemNode
    stat,          \* the statistics dataset: <<[name, data]>>, data[time][element]
    geomReadable,  \* netCDF4.Dataset(geom_file_path) succeeds
    statReadable,  \* netCDF4.Dataset(stat_file_path) succeeds
    constructed,   \* a RiverTransect object exists
    df,            \* self.df: the ordered columns <<[name, vals]>>
    input,         \* the arguments of the direct call of a helper function
    lastCall,      \* the last call made: what it was given, returned, raised, opened
    calls          \* the number of method calls made on the transect so far

vars == <<mesh, stat, geomReadable, statReadable, constructed, df, input, lastCall, calls>>

----------------------------------------------------------------------------
(* Bounds of the model *)

\* longest coordinate list given to a direct call of calculate_path_distances
MaxLen == 3

\* longest coordinate list given to the RiverTransect constructor
MaxPts == 2

----------------------------------------------------------------------------
(* Values: Python None, float NaN, and numbers *)

None == [tag |-> "None", val |-> 0]

NaN == [tag |-> "NaN", val |-> 0]

Num(n) == [tag |-> "num", val |-> n]

\* pd.isna / pd.notna on a scalar
IsNa(v) == v.tag # "num"

\* Python's "v is not None"
IsNotNone(v) == v.tag # "None"

SeqsUpTo(S, n) == UNION {[1..k -> S] : k \in 0..n}

\* pandas' dtype inference when a Python list becomes a column: a list holding
\* numbers and None becomes float64 and every None becomes NaN; a list of None
\* only (or an empty list) stays an object column of None
SeriesFromList(values) ==
    IF \A i \in 1..Len(values) : values[i] = None
    THEN values
    ELSE [i \in 1..Len(values) |-> IF values[i] = None THEN NaN ELSE values[i]]

----------------------------------------------------------------------------
(* helpers.py: path distances *)

RECURSIVE ISqrtFrom(_, _)
ISqrtFrom(n, r) == IF (r + 1) * (r + 1) > n THEN r ELSE ISqrtFrom(n, r + 1)

\* np.sqrt, on the perfect squares the model feeds it
Sqrt(n) == ISqrtFrom(n, 0)

IsSquare(n) == Sqrt(n) * Sqrt(n) = n

calculate_distance(easting1, northing1, easting2, northing2) ==
    Sqrt((easting2 - easting1) * (easting2 - easting1)
         + (northing2 - northing1) * (northing2 - northing1))

\* the loop of calculate_path_distances from index i (range(1, len), 0-based,
\* is 2..Len here), with total_distance and cumulative_distances so far
RECURSIVE PathLoop(_, _, _, _, _)
PathLoop(eastings, northings, i, total_distance, cumulative_distances) ==
    IF i > Len(eastings) THEN cumulative_distances
    ELSE LET segment_distance == calculate_distance(eastings[i-1], northings[i-1],
                                                    eastings[i], northings[i])
         IN  PathLoop(eastings, northings, i + 1, total_distance + segment_distance,
                      Append(cumulative_distances, total_distance + segment_distance))

\* a plausible slip: the distance from the first point instead of the running sum
calculate_path_distances_from_first(eastings, northings) ==
    IF Len(eastings) # Len(northings)
    THEN [raised |-> "ValueError", ret |-> <<>>]
    ELSE [raised |-> "none",
          ret |-> [i \in 1..Len(eastings) |->
                      calculate_distance(eastings[1], northings[1],
                                         eastings[i], northings[i])]]

calculate_path_distances(eastings, northings) ==
    IF Len(eastings) # Len(northings)
    THEN [raised |-> "ValueError", ret |-> <<>>]
    ELSE IF Len(eastings) < 2
    THEN [raised |-> "none", ret |-> [i \in 1..Len(eastings) |-> 0]]
    ELSE [raised |-> "none", ret |-> PathLoop(eastings, northings, 2, 0, <<0>>)]

\* every square root the call takes is exact
ExactPath(eastings, northings) ==
    Len(eastings) = Len(northings) =>
        \A i \in 2..Len(eastings) :
            IsSquare((eastings[i] - eastings[i-1]) * (eastings[i] - eastings[i-1])
                     + (northings[i] - northings[i-1]) * (northings[i] - northings[i-1]))

----------------------------------------------------------------------------
(* The geometry dataset and shapely's point-in-polygon test *)

\* the fill sentinel of NetElemNode's unused slots
FillValue == -1

\* helpers.py, find_element_from_coordinates: search_radius
search_radius == 100

\* nc.variables["NetElemNode"][:] - 1, then np.ma.filled(elem_node, -1):
\* 1-based node indices become 0-based, the masked fill slots become -1
ElemNodeZeroBased(m) ==
    [e \in 1..Len(m.elem) |->
        [c \in 1..Len(m.elem[e]) |->
            IF m.elem[e][c] = FillValue THEN -1 ELSE m.elem[e][c] - 1]]

\* x[i], y[i] of a numpy array by a 0-based index; a negative index counts
\* from the end
NodeAt(m, id) ==
    IF id < 0 THEN <<m.x[Len(m.x) + id + 1], m.y[Len(m.y) + id + 1]>>
    ELSE <<m.x[id + 1], m.y[id + 1]>>

\* a plausible slip: the padding is not stripped
ValidIdsPaddingKept(node_ids) == node_ids

\* node_ids[node_ids >= 0]
ValidIds(node_ids) == SelectSeq(node_ids, LAMBDA v : v >= 0)

\* list(zip(x[valid_ids], y[valid_ids]))
PolyCoords(m, valid_ids) == [i \in 1..Len(valid_ids) |-> NodeAt(m, valid_ids[i])]

Min2(a, b) == IF a < b THEN a ELSE b

Max2(a, b) == IF a < b THEN b ELSE a

Cross(a, b, p) == (b[1] - a[1]) * (p[2] - a[2]) - (b[2] - a[2]) * (p[1] - a[1])

OnSegment(a, b, p) ==
    /\ Cross(a, b, p) = 0
    /\ Min2(a[1], b[1]) <= p[1] /\ p[1] <= Max2(a[1], b[1])
    /\ Min2(a[2], b[2]) <= p[2] /\ p[2] <= Max2(a[2], b[2])

\* the edge a-b crosses the horizontal ray from p towards +x
CrossesRay(a, b, p) ==
    /\ (a[2] > p[2]) # (b[2] > p[2])
    /\ LET d == b[2] - a[2]
           lhs == (p[1] - a[1]) * d
           rhs == (p[2] - a[2]) * (b[1] - a[1])
       IN  IF d > 0 THEN lhs < rhs ELSE lhs > rhs

NextVertex(poly, i) == poly[(i % Len(poly)) + 1]

OnBoundary(poly, p) ==
    \E i \in 1..Len(poly) : OnSegment(poly[i], NextVertex(poly, i), p)

InsideOrOnBoundary(poly, p) ==
    \/ OnBoundary(poly, p)
    \/ Cardinality({i \in 1..Len(poly) : CrossesRay(poly[i], NextVertex(poly, i), p)}) % 2 = 1

\* Polygon(poly_coords).contains(point): the point lies in the polygon's
\* interior; a point on an edge or on a vertex is not contained
Contains(poly, p) == InsideOrOnBoundary(poly, p) /\ ~OnBoundary(poly, p)

\* a plausible slip: a node at exactly search_radius is not nearby
NearbyNodesStrict(m, easting, northing) ==
    {id \in 0..(Len(m.x) - 1) :
        (m.x[id + 1] - easting) * (m.x[id + 1] - easting)
        + (m.y[id + 1] - northing) * (m.y[id + 1] - northing)
            < search_radius * search_radius}

\* np.where(np.sqrt((x - easting)**2 + (y - northing)**2) <= search_radius):
\* on integers sqrt(d) <= r exactly when d <= r*r
NearbyNodes(m, easting, northing) ==
    {id \in 0..(Len(m.x) - 1) :
        (m.x[id + 1] - easting) * (m.x[id + 1] - easting)
        + (m.y[id + 1] - northing) * (m.y[id + 1] - northing)
            <= search_radius * search_radius}

\* any(node_id in nearby_nodes_set for node_id in valid_ids)
AnyNearby(valid_ids, nearby) == \E i \in 1..Len(valid_ids) : valid_ids[i] \in nearby

\* x[valid_ids] raises IndexError: an index is beyond the node arrays
Dangling(m, valid_ids) == \E i \in 1..Len(valid_ids) : valid_ids[i] >= Len(m.x)

\* the scan ended with an exception instead of a result
ScanError == [tag |-> "IndexError", val |-> 0]

\* a plausible slip: the scan keeps the last match instead of stopping at the first
RECURSIVE ScanFilteredLastMatch(_, _, _, _, _, _)
ScanFilteredLastMatch(m, elem_node, nearby, point, elem_idx, found) ==
    IF elem_idx >= Len(elem_node) THEN found
    ELSE LET valid_ids == ValidIds(elem_node[elem_idx + 1])
         IN  IF /\ AnyNearby(valid_ids, nearby)
                /\ Len(valid_ids) >= 3
                /\ Contains(PolyCoords(m, valid_ids), point)
             THEN ScanFilteredLastMatch(m, elem_node, nearby, point, elem_idx + 1, Num(elem_idx))
             ELSE ScanFilteredLastMatch(m, elem_node, nearby, point, elem_idx + 1, found)

\* helpers.py: the loop over enumerate(elem_node) from elem_idx on
RECURSIVE ScanFiltered(_, _, _, _, _, _)
ScanFiltered(m, elem_node, nearby, point, elem_idx, found) ==
    IF elem_idx >= Len(elem_node) THEN found
    ELSE LET valid_ids == ValidIds(elem_node[elem_idx + 1])
         IN  IF ~AnyNearby(valid_ids, nearby)
             THEN ScanFiltered(m, elem_node, nearby, point, elem_idx + 1, found)
             ELSE IF Dangling(m, valid_ids)
             THEN ScanError
             ELSE IF Len(valid_ids) < 3
             THEN ScanFiltered(m, elem_node, nearby, point, elem_idx + 1, found)
             ELSE IF Contains(PolyCoords(m, valid_ids), point)
             THEN Num(elem_idx)
             ELSE ScanFiltered(m, elem_node, nearby, point, elem_idx + 1, found)

\* eastings_to_graph.py: the loop over enumerate(elem_node) from elem_idx on
RECURSIVE ScanAll(_, _, _, _, _)
ScanAll(m, elem_node, point, elem_idx, found) ==
    IF elem_idx >= Len(elem_node) THEN found
    ELSE LET valid_ids == ValidIds(elem_node[elem_idx + 1])
         IN  IF Dangling(m, valid_ids)
             THEN ScanError
             ELSE IF Len(valid_ids) < 3
             THEN ScanAll(m, elem_node, point, elem_idx + 1, found)
             ELSE IF Contains(PolyCoords(m, valid_ids), point)
             THEN Num(elem_idx)
             ELSE ScanAll(m, elem_node, point, elem_idx + 1, found)

\* helpers.py find_element_from_coordinates: the dataset is opened first (a
\* missing or unreadable file raises there) and closed after the scan; an
\* exception in between leaves the function before nc.close()
find_element_from_coordinates(easting, northing, m, readable) ==
    LET found == ScanFiltered(m, ElemNodeZeroBased(m), NearbyNodes(m, easting, northing),
                              <<easting, northing>>, 0, None)
    IN  IF ~readable
        THEN [raised |-> "OSError", ret |-> None, opens |-> 0, closes |-> 0]
        ELSE IF found = ScanError
        THEN [raised |-> "IndexError", ret |-> None, opens |-> 1, closes |-> 0]
        ELSE [raised |-> "none", ret |-> found, opens |-> 1, closes |-> 1]

\* eastings_to_graph.py find_element_from_coordinates: the unfiltered full scan
find_element_from_coordinates_full_scan(easting, northing, m, readable) ==
    LET found == ScanAll(m, ElemNodeZeroBased(m), <<easting, northing>>, 0, None)
    IN  IF ~readable
        THEN [raised |-> "OSError", ret |-> None, opens |-> 0, closes |-> 0]
        ELSE IF found = ScanError
        THEN [raised |-> "IndexError", ret |-> None, opens |-> 1, closes |-> 0]
        ELSE [raised |-> "none", ret |-> found, opens |-> 1, closes |-> 1]

\* Nodes shared by the meshes of the model (0-based index: coordinates)
\*   0 (-5,-5)  1 (5,-5)  2 (5,5)  3 (-5,5)  4 (15,-5)  5 (15,5)
\*   6 (-200,10)  7 (200,10)  8 (0,300)
NetNode_x == <<-5, 5, 5, -5, 15, 15, -200, 200, 0>>

NetNode_y == <<-5, -5, 5, 5, -5, 5, 10, 10, 300>>

\* two adjacent quads, a slot-padded two-node element between them, a quad that
\* overlaps both, and a large triangle whose nodes are far from its inside
MeshA ==
    [x |-> NetNode_x, y |-> NetNode_y,
     elem |-> << <<1, 2, 3, 4>>,
                 <<2, 5, FillValue, FillValue>>,
                 <<2, 5, 6, 3>>,
                 <<1, 5, 6, 4>>,
                 <<7, 8, 9, FillValue>> >>]

\* padded triangles, the overlapping quad after them, an all-padding element
MeshB ==
    [x |-> NetNode_x, y |-> NetNode_y,
     elem |-> << <<FillValue, FillValue, FillValue, FillValue>>,
                 <<1, 2, 3, FillValue>>,
                 <<1, 3, 4, FillValue>>,
                 <<7, 8, 9, FillValue>>,
                 <<1, 5, 6, 4>>,
                 <<2, 5, 6, FillValue>> >>]

Meshes == {MeshA, MeshB}

\* query points of direct calls of the locators
LocatePoints ==
    { <<0, 0>>, <<10, 0>>, <<5, 0>>, <<5, 5>>, <<5, -5>>, <<25, 0>>, <<0, 20>>,
      <<10, 20>>, <<-140, 90>>, <<300, 300>>, <<2, -3>>, <<-2, 3>>, <<12, 3>>,
      <<0, 5>>, <<0, 10>>, <<0, 300>>, <<-5, -5>>, <<3, 3>> }

----------------------------------------------------------------------------
(* The statistics dataset and helpers.py get_value_for_element *)

MEAN_cTR2 == "Mesh2D_2d_MEAN_FullRun_cTR2"

MEAN_cTR4 == "Mesh2D_2d_MEAN_FullRun_cTR4"

MAX_cTR1 == "Mesh2D_2d_MAX_FullRun_cTR1"

\* variable_name in stat_nc.variables
HasVariable(st, variable_name) == \E i \in 1..Len(st) : st[i].name = variable_name

\* stat_nc.variables[variable_name]: the (time, element) array
VariableData(st, variable_name) ==
    st[CHOOSE i \in 1..Len(st) : st[i].name = variable_name].data

\* the first index of stat_nc.variables[variable_name][0, element_id]
TimeSlice(data) == data[1]

\* stat_nc.variables[variable_name][0, element_id]: netCDF4 casts a scalar index
\* with int(), so 3.0 reads element 3 and NaN or None raise; a negative index
\* counts from the end; an index outside the array raises IndexError
IndexElement(data, element_id) ==
    LET row == TimeSlice(data)
        n == Len(row)
    IN  IF element_id.tag # "num"
        THEN [raised |-> "IndexError", ret |-> None]
        ELSE IF element_id.val >= 0 /\ element_id.val < n
        THEN [raised |-> "none", ret |-> Num(row[element_id.val + 1])]
        ELSE IF element_id.val < 0 /\ -element_id.val <= n
        THEN [raised |-> "none", ret |-> Num(row[n + element_id.val + 1])]
        ELSE [raised |-> "IndexError", ret |-> None]

\* a plausible slip: no try/except around the read
get_value_for_element_uncaught(element_id, variable_name, st, readable) ==
    IF ~readable
    THEN [raised |-> "OSError", ret |-> None, opens |-> 0, closes |-> 0]
    ELSE IF ~HasVariable(st, variable_name)
    THEN [raised |-> "none", ret |-> None, opens |-> 1, closes |-> 1]
    ELSE [raised |-> IndexElement(VariableData(st, variable_name), element_id).raised,
          ret |-> IndexElement(VariableData(st, variable_name), element_id).ret,
          opens |-> 1,
          closes |-> IF IndexElement(VariableData(st, variable_name), element_id).raised = "none"
                     THEN 1 ELSE 0]

\* helpers.py get_value_for_element: None when the variable is absent, and None
\* when the read raises (except Exception); opening a missing file raises.
\* stat_nc.close() is called on each of the three ways out
get_value_for_element(element_id, variable_name, st, readable) ==
    IF ~readable
    THEN [raised |-> "OSError", ret |-> None, opens |-> 0, closes |-> 0]
    ELSE IF ~HasVariable(st, variable_name)
    THEN [raised |-> "none", ret |-> None, opens |-> 1, closes |-> 1]
    ELSE [raised |-> "none",
          ret |-> IndexElement(VariableData(st, variable_name), element_id).ret,
          opens |-> 1, closes |-> 1]

\* statistics datasets of the model: two time slices per variable
StatFull ==
    << [name |-> MEAN_cTR2, data |-> << <<3, 1, 0, 2, 4, 1>>, <<7, 7, 7, 7, 7, 7>> >>],
       [name |-> MEAN_cTR4, data |-> << <<2, 5, 0, 1, 3, 2>>, <<8, 8, 8, 8, 8, 8>> >>],
       [name |-> MAX_cTR1,  data |-> << <<6, 6, 5, 4, 9, 3>>, <<9, 9, 9, 9, 9, 9>> >>] >>

\* MEAN cTR2 is absent
StatNoTR2 ==
    << [name |-> MEAN_cTR4, data |-> << <<2, 5, 0, 1, 3, 2>>, <<8, 8, 8, 8, 8, 8>> >>],
       [name |-> MAX_cTR1,  data |-> << <<6, 6, 5, 4, 9, 3>>, <<9, 9, 9, 9, 9, 9>> >>] >>

\* the arrays are shorter than the mesh: element IDs from 2 on are out of range
StatShort ==
    << [name |-> MEAN_cTR2, data |-> << <<3, 1>>, <<7, 7>> >>],
       [name |-> MEAN_cTR4, data |-> << <<2, 5>>, <<8, 8>> >>] >>

Stats == {StatFull, StatNoTR2, StatShort}

VariableNames == {MEAN_cTR2, MEAN_cTR4, MAX_cTR1}

\* element IDs given to direct calls of get_value_for_element
DirectIds == {Num(k) : k \in -3..7} \cup {None, NaN}

----------------------------------------------------------------------------
(* river_transect.py: the DataFrame self.df and class RiverTransect *)

\* name in self.df.columns
HasColumn(d, name) == \E i \in 1..Len(d) : d[i].name = name

\* self.df[name]
Column(d, name) == d[CHOOSE i \in 1..Len(d) : d[i].name = name].vals

\* self.df[name] = vals: an existing column keeps its place, a new one is appended
SetColumn(d, name, vals) ==
    IF HasColumn(d, name)
    THEN [i \in 1..Len(d) |-> IF d[i].name = name THEN [name |-> name, vals |-> vals] ELSE d[i]]
    ELSE Append(d, [name |-> name, vals |-> vals])

\* len(self.df)
NumRows(d) == IF Len(d) = 0 THEN 0 ELSE Len(d[1].vals)

NumSeq(s) == [i \in 1..Len(s) |-> Num(s[i])]

RawSeq(vals) == [i \in 1..Len(vals) |-> vals[i].val]

\* RiverTransect.get_distances: no distance column for an empty table
get_distances(d) ==
    IF NumRows(d) > 0
    THEN SetColumn(d, "distance",
                   NumSeq(calculate_path_distances(RawSeq(Column(d, "easting")),
                                                   RawSeq(Column(d, "northing"))).ret))
    ELSE d

\* RiverTransect.get_element_ids: one locator call, hence one open of the
\* geometry dataset, per row; the first call that raises ends the method
get_element_ids(d, m, readable) ==
    LET found == [i \in 1..NumRows(d) |->
                     find_element_from_coordinates(
                         Column(d, "easting")[i].val, Column(d, "northing")[i].val,
                         m, readable)]
        failing == {i \in 1..NumRows(d) : found[i].raised # "none"}
        first == CHOOSE i \in failing : \A j \in failing : i <= j
    IN  IF failing # {}
        THEN [raised |-> found[first].raised, df |-> d,
              opens |-> (first - 1) + found[first].opens]
        ELSE [raised |-> "none",
              df |-> SetColumn(d, "element_id",
                               SeriesFromList([i \in 1..NumRows(d) |-> found[i].ret])),
              opens |-> NumRows(d)]

\* the reordering at the end of __init__
ReorderColumns(d) ==
    IF HasColumn(d, "element_id") /\ HasColumn(d, "distance")
    THEN << [name |-> "easting", vals |-> Column(d, "easting")],
            [name |-> "northing", vals |-> Column(d, "northing")],
            [name |-> "element_id", vals |-> Column(d, "element_id")],
            [name |-> "distance", vals |-> Column(d, "distance")] >>
    ELSE d

\* RiverTransect.__init__ after the validation: the table, the distances, the
\* element IDs, the column order
InitTable(eastings, northings, m, readable) ==
    LET d0 == << [name |-> "easting", vals |-> NumSeq(eastings)],
                 [name |-> "northing", vals |-> NumSeq(northings)] >>
        d1 == get_distances(d0)
        ids == get_element_ids(d1, m, readable)
    IN  IF ids.raised # "none"
        THEN [raised |-> ids.raised, constructed |-> FALSE, df |-> <<>>,
              geomOpens |-> ids.opens]
        ELSE [raised |-> "none", constructed |-> TRUE, df |-> ReorderColumns(ids.df),
              geomOpens |-> ids.opens]

\* a plausible slip: the lengths are compared only after the element IDs of the
\* eastings were looked up
RiverTransectInitLateValidation(eastings, northings, m, readable) ==
    IF Len(eastings) # Len(northings)
    THEN [raised |-> IF readable \/ Len(eastings) = 0 THEN "ValueError" ELSE "OSError",
          constructed |-> FALSE, df |-> <<>>,
          geomOpens |-> IF readable THEN Len(eastings) ELSE 0]
    ELSE InitTable(eastings, northings, m, readable)

\* RiverTransect.__init__
RiverTransectInit(eastings, northings, m, readable) ==
    IF Len(eastings) # Len(northings)
    THEN [raised |-> "ValueError", constructed |-> FALSE, df |-> <<>>, geomOpens |-> 0]
    ELSE InitTable(eastings, northings, m, readable)

\* a plausible slip: success reported whenever the transect has a point
AnyNotNoneNonEmpty(values) == Len(values) > 0

\* any(v is not None for v in values)
AnyNotNone(values) == \E i \in 1..Len(values) : IsNotNone(values[i])

\* the rows for which load_variable calls get_value_for_element
QueriedRows(d) == {i \in 1..NumRows(d) : IsNotNone(Column(d, "element_id")[i])}

\* RiverTransect.load_variable: the first call of get_value_for_element that
\* raises ends the method before the column is assigned
load_variable(d, variable_name, st, readable) ==
    LET ids == Column(d, "element_id")
        values == [i \in 1..NumRows(d) |->
                      IF IsNotNone(ids[i])
                      THEN get_value_for_element(ids[i], variable_name, st, readable).ret
                      ELSE None]
    IN  IF QueriedRows(d) # {} /\ ~readable
        THEN [raised |-> "OSError", df |-> d, flag |-> FALSE,
              queried |-> {CHOOSE i \in QueriedRows(d) : \A j \in QueriedRows(d) : i <= j},
              opens |-> 0]
        ELSE [raised |-> "none",
              df |-> SetColumn(d, variable_name, SeriesFromList(values)),
              flag |-> AnyNotNone(values),
              queried |-> QueriedRows(d),
              opens |-> Cardinality(QueriedRows(d))]

\* for var in variables: if var not in self.df.columns: self.load_variable(var)
\* from the i-th variable on; the flag load_variable returns is dropped
RECURSIVE LoadMissing(_, _, _, _, _)
LoadMissing(d, variables, i, st, readable) ==
    IF i > Len(variables)
    THEN [raised |-> "none", df |-> d, loaded |-> <<>>, opens |-> 0]
    ELSE IF HasColumn(d, variables[i])
    THEN LoadMissing(d, variables, i + 1, st, readable)
    ELSE LET r == load_variable(d, variables[i], st, readable)
             rest == LoadMissing(r.df, variables, i + 1, st, readable)
         IN  IF r.raised # "none"
             THEN [raised |-> r.raised, df |-> r.df, loaded |-> <<variables[i]>>,
                   opens |-> r.opens]
             ELSE [raised |-> rest.raised, df |-> rest.df,
                   loaded |-> <<variables[i]>> \o rest.loaded,
                   opens |-> r.opens + rest.opens]

\* a plausible slip: a missing value counts as 0 in the sum
AddFillZero(a, b) ==
    Num((IF IsNa(a) THEN 0 ELSE a.val) + (IF IsNa(b) THEN 0 ELSE b.val))

\* pandas' a + b on one row: NaN where either side is null
Add(a, b) == IF IsNa(a) \/ IsNa(b) THEN NaN ELSE Num(a.val + b.val)

\* self.df[a] + self.df[b]
SeriesAdd(va, vb) == [i \in 1..Len(va) |-> Add(va[i], vb[i])]

DinVariables == <<MEAN_cTR2, MEAN_cTR4>>

\* RiverTransect.get_din
get_din(d, st, readable) ==
    LET l == LoadMissing(d, DinVariables, 1, st, readable)
    IN  IF l.raised # "none"
        THEN [raised |-> l.raised, df |-> l.df, flag |-> FALSE, loaded |-> l.loaded,
              opens |-> l.opens]
        ELSE IF ~(\A i \in 1..Len(DinVariables) : HasColumn(l.df, DinVariables[i]))
        THEN [raised |-> "none", df |-> l.df, flag |-> FALSE, loaded |-> l.loaded,
              opens |-> l.opens]
        ELSE [raised |-> "none",
              df |-> SetColumn(l.df, "mean_din",
                               SeriesAdd(Column(l.df, MEAN_cTR2), Column(l.df, MEAN_cTR4))),
              flag |-> TRUE, loaded |-> l.loaded, opens |-> l.opens]

STDEV_cTR2 == "Mesh2D_2d_STDEV_FullRun_cTR2"

STDEV_cTR4 == "Mesh2D_2d_STDEV_FullRun_cTR4"

StdDevVariables == <<STDEV_cTR2, STDEV_cTR4>>

\* np.where(pd.isna(a), np.nan, a) on one row: None becomes NaN
NaFilled(v) == IF IsNa(v) THEN NaN ELSE v

\* a plausible slip: the standard deviations are combined as if the two sources
\* were independent, sqrt(a^2 + b^2)
StdDevSumIndependent(a, b) ==
    IF IsNa(a) \/ IsNa(b) THEN NaN ELSE Num(Sqrt(a.val * a.val + b.val * b.val))

\* tr2_array + tr4_array on one row: numpy's sum, NaN where either side is NaN
StdDevSum(a, b) == IF IsNa(a) \/ IsNa(b) THEN NaN ELSE Num(a.val + b.val)

\* RiverTransect.get_din_std_dev
get_din_std_dev(d, st, readable) ==
    LET l == LoadMissing(d, StdDevVariables, 1, st, readable)
    IN  IF l.raised # "none"
        THEN [raised |-> l.raised, df |-> l.df, flag |-> FALSE, loaded |-> l.loaded,
              opens |-> l.opens]
        ELSE IF ~(\A i \in 1..Len(StdDevVariables) : HasColumn(l.df, StdDevVariables[i]))
        THEN [raised |-> "none", df |-> l.df, flag |-> FALSE, loaded |-> l.loaded,
              opens |-> l.opens]
        ELSE LET tr2_array == Column(l.df, STDEV_cTR2)
                 tr4_array == Column(l.df, STDEV_cTR4)
                 result == [i \in 1..NumRows(l.df) |->
                               StdDevSum(NaFilled(tr2_array[i]), NaFilled(tr4_array[i]))]
             IN  [raised |-> "none", df |-> SetColumn(l.df, "din_std_dev", result),
                  flag |-> TRUE, loaded |-> l.loaded, opens |-> l.opens]

\* RiverTransect.wfd_performance: the thresholds, in units of 0.00001 mg N/l
WFD_High == 28200

WFD_Good == 380700

WFD_Moderate == 571050

WFD_Poor == 856575

\* self.df[name] = scalar: the scalar at every row
Broadcast(d, value) == [i \in 1..NumRows(d) |-> Num(value)]

\* a plausible slip: a threshold left out
wfd_performance_without_poor(d) ==
    LET d1 == SetColumn(d, "WFD High", Broadcast(d, WFD_High))
        d2 == SetColumn(d1, "WFD Good", Broadcast(d, WFD_Good))
    IN  SetColumn(d2, "WFD Moderate", Broadcast(d, WFD_Moderate))

\* RiverTransect.wfd_performance (it returns True)
wfd_performance(d) ==
    LET d1 == SetColumn(d, "WFD High", Broadcast(d, WFD_High))
        d2 == SetColumn(d1, "WFD Good", Broadcast(d, WFD_Good))
        d3 == SetColumn(d2, "WFD Moderate", Broadcast(d, WFD_Moderate))
    IN  SetColumn(d3, "WFD Poor", Broadcast(d, WFD_Poor))

\* Floats the percentile formula produces.  np.exp(np.log(n)) is n up to the
\* rounding of log and exp: n itself, or the float next below or next above it,
\* depending on the build's libm (glibc gives exp(log(5.0)) = 4.999999999999999)
Rounded(n, ulp) == IF ulp = 0 THEN Num(n) ELSE [tag |-> "num", val |-> n, ulp |-> ulp]

\* np.exp(inf)
Infinity == [tag |-> "num", inf |-> TRUE]

\* np.exp(mu + sigma * z) for s # 0 and a finite z: a positive finite float,
\* denoted by the arguments that determine it
LogNormalValue(m, s, percentile) ==
    [tag |-> "num", m |-> m, s |-> s, percentile |-> percentile]

\* stats.norm.ppf(percentile / 100.0): nan outside [0, 1], -inf at 0, inf at 1,
\* 0.0 at 0.5, finite otherwise
NormPpf(percentile) ==
    IF percentile < 0 \/ percentile > 100 THEN "nan"
    ELSE IF percentile = 0 THEN "-inf"
    ELSE IF percentile = 100 THEN "inf"
    ELSE "finite"

\* lines 285-289 for m > 0: mu = log(m**2 / sqrt(m**2 + s**2)),
\* sigma = sqrt(log(1 + s**2 / m**2)), exp(mu + sigma * z).  With s = 0, sigma is
\* 0.0 and mu is log(m): 0.0 * inf is nan, 0.0 * z is 0.0 for a finite z
LogNormalQuantile(m, s, percentile, ulp) ==
    LET z == NormPpf(percentile)
    IN  IF z = "nan" THEN NaN
        ELSE IF s = 0
        THEN IF z = "finite" THEN Rounded(m, ulp) ELSE NaN
        ELSE IF z = "-inf" THEN Num(0)
        ELSE IF z = "inf" THEN Infinity
        ELSE LogNormalValue(m, s, percentile)

\* a plausible slip: the test for a usable mean forgets m <= 0
PercentileAtNoSignTest(m, s, percentile, ulp) ==
    IF IsNa(m) \/ IsNa(s) THEN NaN
    ELSE LogNormalQuantile(m.val, s.val, percentile, ulp)

\* a plausible slip: the degenerate case returns the standard deviation
PercentileAtDegenerateStdDev(m, s, percentile, ulp) ==
    IF IsNa(m) \/ IsNa(s) \/ m.val <= 0 THEN NaN
    ELSE IF s.val = 0 THEN Num(0)
    ELSE LogNormalQuantile(m.val, s.val, percentile, ulp)

\* one pass of the loop of calculate_din_percentile: result[i] = None stores NaN
\* in the float Series
PercentileAt(m, s, percentile, ulp) ==
    IF IsNa(m) \/ IsNa(s) \/ m.val <= 0 THEN NaN
    ELSE LogNormalQuantile(m.val, s.val, percentile, ulp)

\* a plausible slip: one column for every percentile
PercentileColumnUnkeyed(percentile) == "din_percentile"

\* f'din_percentile_{percentile}'
PercentileColumn(percentile) == "din_percentile_" \o ToString(percentile)

\* the derivation a call of calculate_din_percentile skips because its column
\* is there
NotDerived(d) ==
    [raised |-> "none", df |-> d, flag |-> TRUE, loaded |-> <<>>, opens |-> 0]

\* the element of a one-element set
TheOnly(S) == CHOOSE x \in S : TRUE

\* lines 259-296, with g and h the outcomes of the two derivation steps: the
\* loop over the rows and the assignment of the percentile's column
PercentileFromDerived(g, h, derived, percentile, ulp) ==
    IF g.raised # "none" \/ ~g.flag
    THEN [raised |-> g.raised, df |-> g.df, returned |-> "None", derived |-> derived,
          loaded |-> g.loaded, opens |-> g.opens]
    ELSE IF h.raised # "none" \/ ~h.flag
    THEN [raised |-> h.raised, df |-> h.df, returned |-> "None", derived |-> derived,
          loaded |-> g.loaded \o h.loaded, opens |-> g.opens + h.opens]
    ELSE [raised |-> "none",
          df |-> SetColumn(h.df, PercentileColumn(percentile),
                    [i \in 1..NumRows(h.df) |->
                        PercentileAt(Column(h.df, "mean_din")[i],
                                     Column(h.df, "din_std_dev")[i], percentile, ulp)]),
          returned |-> "Series", derived |-> derived,
          loaded |-> g.loaded \o h.loaded, opens |-> g.opens + h.opens]

\* a plausible slip: both derivations are run on every call
calculate_din_percentile_rederiving(d, percentile, ulp, st, readable) ==
    TheOnly({
        TheOnly({
            PercentileFromDerived(g, h,
                <<"get_din">>
                \o (IF g.raised = "none" /\ g.flag THEN <<"get_din_std_dev">> ELSE <<>>),
                percentile, ulp) :
            h \in {IF g.raised = "none" /\ g.flag
                   THEN get_din_std_dev(g.df, st, readable)
                   ELSE NotDerived(g.df)} }) :
        g \in {get_din(d, st, readable)} })

\* RiverTransect.calculate_din_percentile: g is the outcome of get_din, run if
\* there is no mean_din column; h is the outcome of get_din_std_dev, run next
\* if there is no din_std_dev column; then the percentile is computed
calculate_din_percentile(d, percentile, ulp, st, readable) ==
    TheOnly({
        TheOnly({
            PercentileFromDerived(g, h,
                (IF ~HasColumn(d, "mean_din") THEN <<"get_din">> ELSE <<>>)
                \o (IF g.raised = "none" /\ g.flag /\ ~HasColumn(g.df, "din_std_dev")
                    THEN <<"get_din_std_dev">> ELSE <<>>),
                percentile, ulp) :
            h \in {IF g.raised = "none" /\ g.flag /\ ~HasColumn(g.df, "din_std_dev")
                   THEN get_din_std_dev(g.df, st, readable)
                   ELSE NotDerived(g.df)} }) :
        g \in {IF ~HasColumn(d, "mean_din") THEN get_din(d, st, readable)
               ELSE NotDerived(d)} })

\* RiverTransect.list_available_variables: the names of the dataset's
\* variables; any exception, a failing open included, is caught and [] returned
list_available_variables(st, readable) ==
    IF ~readable
    THEN [raised |-> "none", ret |-> <<>>, opens |-> 0]
    ELSE [raised |-> "none", ret |-> [i \in 1..Len(st) |-> st[i].name], opens |-> 1]

----------------------------------------------------------------------------
(* The state machine *)

\* coordinates of transect points; ExactPath keeps the paths whose segment
\* lengths are whole numbers
EastingValues == {0, 10, 25}

NorthingValues == {0, 20}

NoCall ==
    [op |-> "none", eastings |-> <<>>, northings |-> <<>>, name |-> "", id |-> None,
     raised |-> "none", ret |-> None, flag |-> FALSE, seq |-> <<>>,
     geomOpens |-> 0, statOpens |-> 0, queried |-> {}, loaded |-> <<>>,
     percentile |-> 0, derived |-> <<>>, returned |-> "",
     geomCloses |-> 0, statCloses |-> 0, names |-> <<>>]

NoInput == [eastings |-> <<>>, northings |-> <<>>, point |-> <<0, 0>>, id |-> None, name |-> ""]

Init ==
    /\ mesh \in Meshes
    /\ stat \in Stats
    /\ geomReadable \in BOOLEAN
    /\ statReadable \in BOOLEAN
    /\ constructed = FALSE
    /\ df = <<>>
    /\ \E eastings \in SeqsUpTo(EastingValues, MaxPts),
          northings \in SeqsUpTo(NorthingValues, MaxPts) :
            /\ ExactPath(eastings, northings)
            /\ input = [NoInput EXCEPT !.eastings = eastings, !.northings = northings]
    /\ lastCall = NoCall
    /\ calls = 0

\* RiverTransect(eastings, northings, geom_file_path, stat_file_path) on the
\* coordinate lists drawn at the start
Construct ==
    /\ ~constructed
    /\ LET r == RiverTransectInit(input.eastings, input.northings, mesh, geomReadable)
       IN  /\ constructed' = r.constructed
           /\ df' = r.df
           /\ lastCall' = [NoCall EXCEPT !.op = "__init__",
                                         !.eastings = input.eastings,
                                         !.northings = input.northings,
                                         !.raised = r.raised, !.geomOpens = r.geomOpens]
    /\ UNCHANGED <<mesh, stat, geomReadable, statReadable, input>>

\* transect.load_variable(variable_name)
LoadVariable(variable_name) ==
    /\ constructed
    /\ LET r == load_variable(df, variable_name, stat, statReadable)
       IN  /\ df' = r.df
           /\ lastCall' = [NoCall EXCEPT !.op = "load_variable", !.name = variable_name,
                                         !.raised = r.raised, !.flag = r.flag,
                                         !.statOpens = r.opens, !.queried = r.queried,
                                         !.loaded = <<variable_name>>]
    /\ UNCHANGED <<mesh, stat, geomReadable, statReadable, constructed, input>>

\* transect.get_din()
GetDin ==
    /\ constructed
    /\ LET r == get_din(df, stat, statReadable)
       IN  /\ df' = r.df
           /\ lastCall' = [NoCall EXCEPT !.op = "get_din",
                                         !.raised = r.raised, !.flag = r.flag,
                                         !.statOpens = r.opens, !.loaded = r.loaded]
    /\ UNCHANGED <<mesh, stat, geomReadable, statReadable, constructed, input>>

\* The transect: construction from the coordinate lists drawn at the start, then
\* any sequence of its methods
Next ==
    \/ Construct /\ UNCHANGED calls
    \/ \E variable_name \in VariableNames : LoadVariable(variable_name) /\ UNCHANGED calls
    \/ GetDin /\ UNCHANGED calls

Spec == Init /\ [][Next]_vars

----------------------------------------------------------------------------
(* The input validation: calculate_path_distances called directly, and the
   constructor, on the coordinate lists drawn at the start *)

InitPath ==
    /\ mesh \in Meshes
    /\ stat = StatFull
    /\ geomReadable \in BOOLEAN
    /\ statReadable = TRUE
    /\ constructed = FALSE
    /\ df = <<>>
    /\ \E eastings \in SeqsUpTo(EastingValues, MaxLen),
          northings \in SeqsUpTo(NorthingValues, MaxLen) :
            /\ ExactPath(eastings, northings)
            /\ input = [NoInput EXCEPT !.eastings = eastings, !.northings = northings]
    /\ lastCall = NoCall
    /\ calls = 0

\* calculate_path_distances(eastings, northings)
CallPathDistances ==
    /\ LET r == calculate_path_distances(input.eastings, input.northings)
       IN  lastCall' = [NoCall EXCEPT !.op = "calculate_path_distances",
                                      !.eastings = input.eastings,
                                      !.northings = input.northings,
                                      !.raised = r.raised, !.seq = r.ret]
    /\ UNCHANGED <<mesh, stat, geomReadable, statReadable, constructed, df, input>>

NextPath ==
    \/ CallPathDistances /\ UNCHANGED calls
    \/ Construct /\ UNCHANGED calls

SpecPath == InitPath /\ [][NextPath]_vars

----------------------------------------------------------------------------
(* The two locators, called directly on the point drawn at the start *)

InitLocate ==
    /\ mesh \in Meshes
    /\ stat = StatFull
    /\ geomReadable \in BOOLEAN
    /\ statReadable = TRUE
    /\ constructed = FALSE
    /\ df = <<>>
    /\ \E point \in LocatePoints : input = [NoInput EXCEPT !.point = point]
    /\ lastCall = NoCall
    /\ calls = 0

\* helpers.find_element_from_coordinates(easting, northing, geom_file_path)
CallFindElement ==
    /\ LET r == find_element_from_coordinates(input.point[1], input.point[2],
                                              mesh, geomReadable)
       IN  lastCall' = [NoCall EXCEPT !.op = "find_element_from_coordinates",
                                      !.raised = r.raised, !.ret = r.ret,
                                      !.geomOpens = r.opens, !.geomCloses = r.closes]
    /\ UNCHANGED <<mesh, stat, geomReadable, statReadable, constructed, df, input>>

\* eastings_to_graph.find_element_from_coordinates(easting, northing, geom_file_path)
CallFindElementFullScan ==
    /\ LET r == find_element_from_coordinates_full_scan(input.point[1], input.point[2],
                                                        mesh, geomReadable)
       IN  lastCall' = [NoCall EXCEPT !.op = "find_element_from_coordinates_full_scan",
                                      !.raised = r.raised, !.ret = r.ret,
                                      !.geomOpens = r.opens, !.geomCloses = r.closes]
    /\ UNCHANGED <<mesh, stat, geomReadable, statReadable, constructed, df, input>>

NextLocate ==
    \/ CallFindElement /\ UNCHANGED calls
    \/ CallFindElementFullScan /\ UNCHANGED calls

SpecLocate == InitLocate /\ [][NextLocate]_vars

----------------------------------------------------------------------------
(* The statistics accessor, called directly on the arguments drawn at the start *)

InitStore ==
    /\ mesh = MeshA
    /\ stat \in Stats
    /\ geomReadable = TRUE
    /\ statReadable \in BOOLEAN
    /\ constructed = FALSE
    /\ df = <<>>
    /\ \E element_id \in DirectIds, variable_name \in VariableNames :
            input = [NoInput EXCEPT !.id = element_id, !.name = variable_name]
    /\ lastCall = NoCall
    /\ calls = 0

\* get_value_for_element(element_id, variable_name, stat_file_path)
CallGetValue ==
    /\ LET r == get_value_for_element(input.id, input.name, stat, statReadable)
       IN  lastCall' = [NoCall EXCEPT !.op = "get_value_for_element",
                                      !.id = input.id, !.name = input.name,
                                      !.raised = r.raised, !.ret = r.ret,
                                      !.statOpens = r.opens, !.statCloses = r.closes]
    /\ UNCHANGED <<mesh, stat, geomReadable, statReadable, constructed, df, input>>

NextStore == CallGetValue /\ UNCHANGED calls

SpecStore == InitStore /\ [][NextStore]_vars

----------------------------------------------------------------------------
(* The derived columns: a transect over a statistics dataset that holds the
   means and the standard deviations, and any sequence of its methods *)

\* most method calls made on one transect
MaxCalls == 3

\* element 0: mean 3 + 2, standard deviations 0 and 0; element 2: mean 0,
\* standard deviations 4 and 6 (in tenths); element 4: mean 7, deviations 1 and 2
StatDerived ==
    << [name |-> MEAN_cTR2,  data |-> << <<3, 1, 0, 2, 4, 1>>, <<7, 7, 7, 7, 7, 7>> >>],
       [name |-> MEAN_cTR4,  data |-> << <<2, 5, 0, 1, 3, 2>>, <<8, 8, 8, 8, 8, 8>> >>],
       [name |-> STDEV_cTR2, data |-> << <<0, 1, 4, 1, 1, 1>>, <<2, 2, 2, 2, 2, 2>> >>],
       [name |-> STDEV_cTR4, data |-> << <<0, 1, 6, 1, 2, 1>>, <<3, 3, 3, 3, 3, 3>> >>] >>

\* the cTR4 standard deviation stops after element 1; element 4 has a negative
\* mean
StatRagged ==
    << [name |-> MEAN_cTR2,  data |-> << <<3, 1, 1, 2, -4, 1>>, <<7, 7, 7, 7, 7, 7>> >>],
       [name |-> MEAN_cTR4,  data |-> << <<2, 5, 1, 1, 3, 2>>, <<8, 8, 8, 8, 8, 8>> >>],
       [name |-> STDEV_cTR2, data |-> << <<4, 1, 4, 1, 1, 1>>, <<2, 2, 2, 2, 2, 2>> >>],
       [name |-> STDEV_cTR4, data |-> << <<6, 1>>, <<3, 3>> >>] >>

\* transects: empty, inside one element, two elements, one point off the mesh
DerivedTransects ==
    { [eastings |-> <<>>, northings |-> <<>>],
      [eastings |-> <<0>>, northings |-> <<0>>],
      [eastings |-> <<0, 10>>, northings |-> <<0, 0>>],
      [eastings |-> <<0, 25>>, northings |-> <<0, 0>>],
      [eastings |-> <<25>>, northings |-> <<0>>] }

\* names given to load_variable: a source of each derivation, and the name of a
\* column the constructor made
DerivedVariableNames == {MEAN_cTR2, STDEV_cTR4, "distance"}

\* percentiles requested
Percentiles == {50, 90, 100}

\* the rounding of np.exp(np.log(m)): the float below, m itself, the float above
Ulps == {-1, 0, 1}

InitDerived ==
    /\ mesh \in Meshes
    /\ stat \in {StatDerived, StatRagged}
    /\ geomReadable = TRUE
    /\ statReadable \in BOOLEAN
    /\ constructed = FALSE
    /\ df = <<>>
    /\ \E t \in DerivedTransects :
            input = [NoInput EXCEPT !.eastings = t.eastings, !.northings = t.northings]
    /\ lastCall = NoCall
    /\ calls = 0

\* transect.get_din_std_dev()
GetDinStdDev ==
    /\ constructed
    /\ LET r == get_din_std_dev(df, stat, statReadable)
       IN  /\ df' = r.df
           /\ lastCall' = [NoCall EXCEPT !.op = "get_din_std_dev",
                                         !.raised = r.raised, !.flag = r.flag,
                                         !.statOpens = r.opens, !.loaded = r.loaded]
    /\ UNCHANGED <<mesh, stat, geomReadable, statReadable, constructed, input>>

\* transect.wfd_performance()
WfdPerformance ==
    /\ constructed
    /\ df' = wfd_performance(df)
    /\ lastCall' = [NoCall EXCEPT !.op = "wfd_performance", !.flag = TRUE]
    /\ UNCHANGED <<mesh, stat, geomReadable, statReadable, constructed, input>>

\* transect.calculate_din_percentile(percentile), on a build whose exp and log
\* round by ulp
CalculateDinPercentile(percentile, ulp) ==
    /\ constructed
    /\ \E r \in {calculate_din_percentile(df, percentile, ulp, stat, statReadable)} :
           /\ df' = r.df
           /\ lastCall' = [NoCall EXCEPT !.op = "calculate_din_percentile",
                                         !.percentile = percentile,
                                         !.raised = r.raised, !.returned = r.returned,
                                         !.derived = r.derived,
                                         !.statOpens = r.opens, !.loaded = r.loaded]
    /\ UNCHANGED <<mesh, stat, geomReadable, statReadable, constructed, input>>

\* a method call counts towards the calls made on the transect
Counted == calls < MaxCalls /\ calls' = calls + 1

NextDerived ==
    \/ Construct /\ UNCHANGED calls
    \/ \E variable_name \in DerivedVariableNames : Counted /\ LoadVariable(variable_name)
    \/ Counted /\ GetDin
    \/ Counted /\ GetDinStdDev
    \/ Counted /\ WfdPerformance
    \/ \E percentile \in Percentiles, ulp \in Ulps :
            Counted /\ CalculateDinPercentile(percentile, ulp)

SpecDerived == InitDerived /\ [][NextDerived]_vars

----------------------------------------------------------------------------
(* Dataset files: the lookups called directly, and the transect's methods that
   open a dataset, over files that may be unreadable or malformed *)

\* element 1 names node 12 of a mesh that has 9 nodes
MeshDangling ==
    [x |-> NetNode_x, y |-> NetNode_y,
     elem |-> << <<1, 2, 3, 4>>,
                 <<2, 5, 12, 3>>,
                 <<7, 8, 9, FillValue>> >>]

\* query points: inside element 0, inside element 1's quad, off the mesh
FilePoints == { <<0, 0>>, <<10, 0>>, <<25, 0>> }

\* element IDs: in range, out of range, null
FileIds == {Num(0), Num(7), NaN}

InitFiles ==
    /\ mesh \in Meshes \cup {MeshDangling}
    /\ stat \in Stats
    /\ geomReadable \in BOOLEAN
    /\ statReadable \in BOOLEAN
    /\ constructed = FALSE
    /\ df = <<>>
    /\ \E point \in FilePoints, element_id \in FileIds, variable_name \in VariableNames :
            input = [eastings |-> <<point[1]>>, northings |-> <<point[2]>>,
                     point |-> point, id |-> element_id, name |-> variable_name]
    /\ lastCall = NoCall
    /\ calls = 0

\* transect.list_available_variables()
ListAvailableVariables ==
    /\ constructed
    /\ LET r == list_available_variables(stat, statReadable)
       IN  lastCall' = [NoCall EXCEPT !.op = "list_available_variables",
                                      !.raised = r.raised, !.names = r.ret,
                                      !.statOpens = r.opens]
    /\ UNCHANGED <<mesh, stat, geomReadable, statReadable, constructed, df, input>>

NextFiles ==
    \/ CallFindElement /\ UNCHANGED calls
    \/ CallFindElementFullScan /\ UNCHANGED calls
    \/ CallGetValue /\ UNCHANGED calls
    \/ Construct /\ UNCHANGED calls
    \/ LoadVariable(input.name) /\ UNCHANGED calls
    \/ ListAvailableVariables /\ UNCHANGED calls

SpecFiles == InitFiles /\ [][NextFiles]_vars

----------------------------------------------------------------------------
(* Properties: the path distance calculator and the input validation *)

PathCall == lastCall.op = "calculate_path_distances"

\* d is the Euclidean distance between points i-1 and i of the call's lists
IsSegmentLength(d, i) ==
    /\ d >= 0
    /\ d * d = (lastCall.eastings[i] - lastCall.eastings[i-1])
                 * (lastCall.eastings[i] - lastCall.eastings[i-1])
               + (lastCall.northings[i] - lastCall.northings[i-1])
                 * (lastCall.northings[i] - lastCall.northings[i-1])

\* C1: on equal-length coordinate lists calculate_path_distances returns a list
\* of the same length, whose first entry is 0 and whose entry i is entry i-1
\* plus the Euclidean distance between points i-1 and i; so the list never
\* decreases, the empty input gives the empty list, one point gives [0], and
\* collinear points 10 and 15 apart give [0, 10, 25]
C1_PathDistancesAreRunningSums ==
    (PathCall /\ Len(lastCall.eastings) = Len(lastCall.northings)) =>
        /\ lastCall.raised = "none"
        /\ Len(lastCall.seq) = Len(lastCall.eastings)
        /\ Len(lastCall.seq) >= 1 => lastCall.seq[1] = 0
        /\ \A i \in 2..Len(lastCall.seq) :
              /\ IsSegmentLength(lastCall.seq[i] - lastCall.seq[i-1], i)
              /\ lastCall.seq[i-1] <= lastCall.seq[i]
        /\ lastCall.eastings = <<>> => lastCall.seq = <<>>
        /\ Len(lastCall.eastings) = 1 => lastCall.seq = <<0>>
        /\ (lastCall.eastings = <<0, 10, 25>> /\ lastCall.northings = <<0, 0, 0>>)
              => lastCall.seq = <<0, 10, 25>>

\* the three collinear points of the example
C1_Witness ==
    /\ PathCall
    /\ lastCall.eastings = <<0, 10, 25>>
    /\ lastCall.northings = <<0, 0, 0>>
    /\ lastCall.seq = <<0, 10, 25>>

\* C2: on coordinate lists of different lengths calculate_path_distances and
\* the RiverTransect constructor raise ValueError: no distances, no table, no
\* object, and no dataset was opened
C2_LengthMismatchRaises ==
    (lastCall.op \in {"calculate_path_distances", "__init__"}
        /\ Len(lastCall.eastings) # Len(lastCall.northings)) =>
        /\ lastCall.raised = "ValueError"
        /\ lastCall.seq = <<>>
        /\ lastCall.geomOpens = 0
        /\ lastCall.statOpens = 0
        /\ lastCall.op = "__init__" => (~constructed /\ df = <<>>)

\* the constructor refused two eastings and one northing over a readable mesh
C2_Witness ==
    /\ lastCall.op = "__init__"
    /\ Len(lastCall.eastings) = 2
    /\ Len(lastCall.northings) = 1
    /\ geomReadable
    /\ lastCall.raised = "ValueError"
    /\ ~constructed

----------------------------------------------------------------------------
(* Properties: the spatial locator *)

FilteredCall == lastCall.op = "find_element_from_coordinates"

FullScanCall == lastCall.op = "find_element_from_coordinates_full_scan"

ElementIndices == 0..(Len(mesh.elem) - 1)

\* the non-padding node numbers (1-based, as stored) of element k
ElementNodes(k) == SelectSeq(mesh.elem[k + 1], LAMBDA v : v # FillValue)

\* the polygon of element k over its non-padding nodes
ElementPolygon(k) ==
    [i \in 1..Len(ElementNodes(k)) |->
        <<mesh.x[ElementNodes(k)[i]], mesh.y[ElementNodes(k)[i]]>>]

\* element k is a polygon that contains the query point
ElementContainsPoint(k) ==
    Len(ElementNodes(k)) >= 3 /\ Contains(ElementPolygon(k), input.point)

\* element k has a node within search_radius of the query point
HasNodeWithinRadius(k) ==
    \E i \in 1..Len(ElementNodes(k)) :
        LET dx == mesh.x[ElementNodes(k)[i]] - input.point[1]
            dy == mesh.y[ElementNodes(k)[i]] - input.point[2]
        IN  dx * dx + dy * dy <= search_radius * search_radius

\* the elements the call scans: all of them, or those passing the pre-filter
Candidates == IF FilteredCall THEN {k \in ElementIndices : HasNodeWithinRadius(k)}
              ELSE ElementIndices

MatchingCandidates == {k \in Candidates : ElementContainsPoint(k)}

\* C3: each locator returns the lowest-index candidate element whose polygon
\* contains the point, and None, without raising, exactly when no candidate
\* element contains it
C3_FirstMatchInIndexOrder ==
    ((FilteredCall \/ FullScanCall) /\ geomReadable) =>
        /\ lastCall.raised = "none"
        /\ (lastCall.ret = None) <=> (MatchingCandidates = {})
        /\ MatchingCandidates # {} =>
              /\ lastCall.ret.tag = "num"
              /\ lastCall.ret.val \in MatchingCandidates
              /\ \A k \in MatchingCandidates : lastCall.ret.val <= k

\* the pre-filtered locator returned an element although a later one contains
\* the point too
C3_Witness ==
    /\ FilteredCall
    /\ lastCall.ret.tag = "num"
    /\ \E k \in MatchingCandidates : k > lastCall.ret.val

\* the proper elements (3 or more nodes) that have the query point as a node
ElementsSharingPoint ==
    {k \in ElementIndices :
        /\ Len(ElementNodes(k)) >= 3
        /\ \E i \in 1..Len(ElementPolygon(k)) : ElementPolygon(k)[i] = input.point}

\* C4: a query point on a mesh node shared by several elements resolves to the
\* first of those elements in index order
C4_SharedNodeResolvesToFirstElement ==
    ((FilteredCall \/ FullScanCall) /\ geomReadable
        /\ Cardinality(ElementsSharingPoint) >= 2) =>
        /\ lastCall.ret.tag = "num"
        /\ lastCall.ret.val \in ElementsSharingPoint
        /\ \A k \in ElementsSharingPoint : lastCall.ret.val <= k

\* C5: the padding is stripped before the polygon is built, an element with
\* fewer than 3 valid nodes is never returned, and skipping it does not end
\* the scan of the elements after it
C5_PaddedAndDegenerateElements ==
    ((FilteredCall \/ FullScanCall) /\ geomReadable) =>
        /\ lastCall.ret.tag = "num" =>
              /\ lastCall.ret.val \in ElementIndices
              /\ Len(ElementNodes(lastCall.ret.val)) >= 3
              /\ Contains(ElementPolygon(lastCall.ret.val), input.point)
        /\ \A k \in Candidates, j \in Candidates :
              (k < j /\ Len(ElementNodes(k)) < 3 /\ ElementContainsPoint(j))
                  => lastCall.ret # None

\* the element returned comes after a candidate element of two valid nodes
C5_Witness ==
    /\ FilteredCall
    /\ lastCall.ret.tag = "num"
    /\ \E k \in Candidates : k < lastCall.ret.val /\ Len(ElementNodes(k)) = 2
    /\ \A k \in MatchingCandidates : k >= lastCall.ret.val

----------------------------------------------------------------------------
(* Properties: the statistics accessor *)

ValueCall == lastCall.op = "get_value_for_element"

\* the element ID is a number outside the variable's array
OutOfRange(element_id, variable_name) ==
    /\ element_id.tag = "num"
    /\ \/ element_id.val >= Len(VariableData(stat, variable_name)[1])
       \/ element_id.val < -Len(VariableData(stat, variable_name)[1])

\* C6: on a readable dataset get_value_for_element returns None and does not
\* raise when the variable is absent, and when the variable exists but the
\* element ID is out of range for its array
C6_AbsentVariableOrOutOfRangeGivesNone ==
    (ValueCall /\ statReadable) =>
        /\ lastCall.raised = "none"
        /\ ~HasVariable(stat, lastCall.name) => lastCall.ret = None
        /\ (HasVariable(stat, lastCall.name) /\ OutOfRange(lastCall.id, lastCall.name))
              => lastCall.ret = None

\* the variable exists and the element ID lies beyond the end of its array
C6_Witness ==
    /\ ValueCall
    /\ statReadable
    /\ HasVariable(stat, lastCall.name)
    /\ lastCall.id.tag = "num"
    /\ lastCall.id.val >= Len(VariableData(stat, lastCall.name)[1])
    /\ lastCall.ret = None
    /\ lastCall.raised = "none"

----------------------------------------------------------------------------
(* Properties: loading variables and deriving mean DIN *)

\* load_variable returned
LoadReturned == lastCall.op = "load_variable" /\ lastCall.raised = "none"

ElementIdOfRow(i) == Column(df, "element_id")[i]

\* what the dataset holds at time slice 0 for a variable and an element ID
\* within its array
InRange(element_id, variable_name) ==
    /\ HasVariable(stat, variable_name)
    /\ element_id.tag = "num"
    /\ element_id.val >= 0
    /\ element_id.val < Len(VariableData(stat, variable_name)[1])

DatasetValue(element_id, variable_name) ==
    Num(VariableData(stat, variable_name)[1][element_id.val + 1])

\* the column of a row holds the time-slice-0 value of its element, or null
RowLoadedAsSpecified(variable_name, i) ==
    IF IsNa(ElementIdOfRow(i))
    THEN IsNa(Column(df, variable_name)[i])
    ELSE IF InRange(ElementIdOfRow(i), variable_name)
    THEN Column(df, variable_name)[i] = DatasetValue(ElementIdOfRow(i), variable_name)
    ELSE IsNa(Column(df, variable_name)[i])

\* C7: load_variable stores null for a point whose element ID is null, without
\* querying the statistics dataset for that point, and otherwise the value of
\* the variable at time slice 0 for the point's element ID
C7_LoadVariablePerPoint ==
    LoadReturned =>
        \A i \in 1..NumRows(df) :
            /\ RowLoadedAsSpecified(lastCall.name, i)
            /\ IsNa(ElementIdOfRow(i)) => i \notin lastCall.queried

\* C8: load_variable returns true exactly when some point received a non-null
\* value; it does not raise on a readable dataset, or when no point has an
\* element ID; it returns false when the variable is absent or no point has an
\* element ID
C8_LoadVariableFlag ==
    (constructed /\ lastCall.op = "load_variable") =>
        /\ (statReadable \/ \A i \in 1..NumRows(df) : IsNa(ElementIdOfRow(i)))
              => lastCall.raised = "none"
        /\ lastCall.raised = "none" =>
              /\ lastCall.flag <=>
                    \E i \in 1..NumRows(df) : ~IsNa(Column(df, lastCall.name)[i])
              /\ ~HasVariable(stat, lastCall.name) => ~lastCall.flag
              /\ (\A i \in 1..NumRows(df) : IsNa(ElementIdOfRow(i))) => ~lastCall.flag

\* false was returned for a variable the dataset lacks, on a transect with a
\* resolved point
C8_Witness ==
    /\ LoadReturned
    /\ ~lastCall.flag
    /\ ~HasVariable(stat, lastCall.name)
    /\ \E i \in 1..NumRows(df) : ~IsNa(ElementIdOfRow(i))

\* the source variable was loaded from a readable dataset and is null at every
\* point of a transect that has points
SourceUnavailable(variable_name) ==
    /\ statReadable
    /\ NumRows(df) > 0
    /\ HasColumn(df, variable_name)
    /\ \A i \in 1..NumRows(df) : IsNa(Column(df, variable_name)[i])

\* C9: get_din returns false, without raising, whenever MEAN cTR2 or MEAN cTR4
\* is null at every point of the transect
C9_GetDinFalseWhenSourceUnavailable ==
    (lastCall.op = "get_din"
        /\ (SourceUnavailable(MEAN_cTR2) \/ SourceUnavailable(MEAN_cTR4))) =>
        /\ lastCall.raised = "none"
        /\ ~lastCall.flag

\* the sources of DIN that are not columns yet, in the order get_din visits them
MissingSources(d) == SelectSeq(DinVariables, LAMBDA v : ~HasColumn(d, v))

\* C10: after a successful get_din, mean DIN at each point is the sum of the
\* point's MEAN cTR2 and MEAN cTR4 values, null where either is null; and the
\* call loaded exactly the sources that were no columns before it, leaving a
\* source column that was there as it was
C10_MeanDinIsSumOfSources ==
    [][(lastCall'.op = "get_din" /\ lastCall'.flag) =>
          /\ HasColumn(df', "mean_din")
          /\ \A i \in 1..NumRows(df') :
                LET a == Column(df', MEAN_cTR2)[i]
                    b == Column(df', MEAN_cTR4)[i]
                    m == Column(df', "mean_din")[i]
                IN  IF IsNa(a) \/ IsNa(b) THEN IsNa(m) ELSE m = Num(a.val + b.val)
          /\ lastCall'.loaded = MissingSources(df)
          /\ \A i \in 1..Len(DinVariables) :
                HasColumn(df, DinVariables[i])
                    => Column(df', DinVariables[i]) = Column(df, DinVariables[i])
      ]_vars

\* get_din found MEAN cTR2 loaded, loaded MEAN cTR4 only, and left a sum at one
\* point and null at another
C10_Witness ==
    /\ lastCall.op = "get_din"
    /\ lastCall.flag
    /\ lastCall.loaded = <<MEAN_cTR4>>
    /\ \E i \in 1..NumRows(df) :
          /\ ~IsNa(Column(df, "mean_din")[i])
          /\ Column(df, "mean_din")[i].val
                = Column(df, MEAN_cTR2)[i].val + Column(df, MEAN_cTR4)[i].val
    /\ \E i \in 1..NumRows(df) : IsNa(Column(df, "mean_din")[i])

----------------------------------------------------------------------------
(* Properties: the derived columns *)

StdDevReturned == lastCall.op = "get_din_std_dev" /\ lastCall.raised = "none"

\* C11: get_din_std_dev does not abort (with a readable statistics file it
\* raises nothing and reports success), and at each point the DIN standard
\* deviation is the plain sum of the two source standard deviations (4 and 6
\* tenths give 10 tenths), or null exactly when either source is null there
C11_StdDevIsSumOfSources ==
    /\ (lastCall.op = "get_din_std_dev" /\ statReadable) => lastCall.raised = "none"
    /\ StdDevReturned =>
        /\ lastCall.flag
        /\ HasColumn(df, "din_std_dev")
        /\ Len(Column(df, "din_std_dev")) = NumRows(df)
        /\ \A i \in 1..NumRows(df) :
            LET a == Column(df, STDEV_cTR2)[i]
                b == Column(df, STDEV_cTR4)[i]
                r == Column(df, "din_std_dev")[i]
            IN  /\ (IsNa(a) \/ IsNa(b)) => IsNa(r)
                /\ (~IsNa(a) /\ ~IsNa(b)) => r = Num(a.val + b.val)
                /\ (a = Num(4) /\ b = Num(6)) => r = Num(10)

\* a transect whose first point has the deviations 4 and 6 and whose second
\* point has no cTR4 deviation
C11_Witness ==
    /\ StdDevReturned
    /\ NumRows(df) = 2
    /\ Column(df, STDEV_cTR2)[1] = Num(4) /\ Column(df, STDEV_cTR4)[1] = Num(6)
    /\ Column(df, "din_std_dev")[1] = Num(10)
    /\ ~IsNa(Column(df, STDEV_cTR2)[2]) /\ IsNa(Column(df, STDEV_cTR4)[2])
    /\ IsNa(Column(df, "din_std_dev")[2])

PercentileReturned ==
    /\ lastCall.op = "calculate_din_percentile"
    /\ lastCall.raised = "none"
    /\ lastCall.returned = "Series"

\* the column the last call of calculate_din_percentile wrote
PercentileResult == Column(df, PercentileColumn(lastCall.percentile))

\* the point has no usable mean and deviation: either is null, or the mean is
\* not positive
RowUnusable(i) ==
    \/ IsNa(Column(df, "mean_din")[i])
    \/ IsNa(Column(df, "din_std_dev")[i])
    \/ Column(df, "mean_din")[i].val <= 0

\* with a readable statistics file the call raises nothing
PercentileNeverRaises ==
    (lastCall.op = "calculate_din_percentile" /\ statReadable) => lastCall.raised = "none"

DegenerateAtFive(i) ==
    Column(df, "mean_din")[i] = Num(5) /\ Column(df, "din_std_dev")[i] = Num(0)

\* v is the float n, the float next below n or the float next above n
WithinOneUlp(v, n) == \E ulp \in Ulps : v = Rounded(n, ulp)

PercentileStep == calls' = calls + 1 /\ lastCall'.op = "calculate_din_percentile"

\* C14: a call of calculate_din_percentile on a constructed transect, whatever
\* its columns, first runs get_din if there is no mean DIN, then get_din_std_dev
\* if there is no DIN standard deviation, and then writes the percentile; a
\* column that is there is used as it is and its derivation is not run (with a
\* readable statistics file the call raises nothing and returns the Series)
C14_PercentileDerivesWhatIsMissing ==
    [][PercentileStep =>
        /\ constructed
        /\ statReadable => (lastCall'.raised = "none" /\ lastCall'.returned = "Series")
        /\ lastCall'.raised = "none" =>
            /\ lastCall'.derived =
                  (IF HasColumn(df, "mean_din") THEN <<>> ELSE <<"get_din">>)
                  \o (IF HasColumn(df, "din_std_dev") THEN <<>> ELSE <<"get_din_std_dev">>)
            /\ HasColumn(df', "mean_din") /\ HasColumn(df', "din_std_dev")
            /\ HasColumn(df', PercentileColumn(lastCall'.percentile))
            /\ HasColumn(df, "mean_din") =>
                /\ Column(df', "mean_din") = Column(df, "mean_din")
                /\ \A i \in 1..Len(lastCall'.loaded) :
                      lastCall'.loaded[i] \notin {MEAN_cTR2, MEAN_cTR4}
            /\ ~HasColumn(df, "mean_din") =>
                Column(df', "mean_din")
                    = SeriesAdd(Column(df', MEAN_cTR2), Column(df', MEAN_cTR4))
            /\ HasColumn(df, "din_std_dev") =>
                /\ Column(df', "din_std_dev") = Column(df, "din_std_dev")
                /\ \A i \in 1..Len(lastCall'.loaded) :
                      lastCall'.loaded[i] \notin {STDEV_cTR2, STDEV_cTR4}
            /\ (HasColumn(df, "mean_din") /\ HasColumn(df, "din_std_dev")) =>
                lastCall'.loaded = <<>>
    ]_vars

\* a percentile call on a transect with points ran both derivations, in order
C14_Witness ==
    /\ PercentileReturned
    /\ NumRows(df) > 0
    /\ lastCall.derived = <<"get_din", "get_din_std_dev">>
    /\ HasColumn(df, "mean_din") /\ HasColumn(df, "din_std_dev")

\* a percentile call found the mean DIN and ran only get_din_std_dev
C14_WitnessMeanPresent ==
    /\ PercentileReturned
    /\ lastCall.derived = <<"get_din_std_dev">>

\* a percentile call found both columns and ran neither derivation
C14_WitnessBothPresent ==
    /\ PercentileReturned
    /\ lastCall.derived = <<>>

\* the names of the columns of a table
ColumnNames(d) == {d[i].name : i \in 1..Len(d)}

\* the column a request for percentile q is stored under
ColumnOfPercentile(q) == "din_percentile_" \o ToString(q)

\* the columns the two derivations and their loads may add
DerivationColumns ==
    {MEAN_cTR2, MEAN_cTR4, "mean_din", STDEV_cTR2, STDEV_cTR4, "din_std_dev"}

MeanSourceJustReloaded ==
    /\ lastCall.op = "load_variable"
    /\ lastCall.raised = "none"
    /\ lastCall.name \in {MEAN_cTR2, MEAN_cTR4}
    /\ HasColumn(df, "mean_din")

\* the last call derived the mean DIN
MeanJustDerived ==
    /\ lastCall.raised = "none"
    /\ \/ lastCall.op = "get_din"
       \/ lastCall.op = "calculate_din_percentile"
          /\ \E i \in 1..Len(lastCall.derived) : lastCall.derived[i] = "get_din"

\* the step is a percentile call that runs get_din
PercentileStepDerivesMean ==
    \E i \in 1..Len(lastCall'.derived) : lastCall'.derived[i] = "get_din"

\* C16: the derived columns are memoized with invalidation: a percentile call
\* right after the mean DIN was derived does not derive it again, and a
\* percentile call right after a source of the mean DIN was reloaded with
\* load_variable derives the mean DIN again from the reloaded source
C16_DerivedColumnsMemoizedUntilReload ==
    [][(PercentileStep /\ lastCall'.raised = "none") =>
        /\ MeanJustDerived => ~PercentileStepDerivesMean
        /\ MeanSourceJustReloaded => PercentileStepDerivesMean
    ]_vars

\* the table right after the construction from the coordinate lists
ConstructedTable == RiverTransectInit(input.eastings, input.northings, mesh, geomReadable).df

BaseColumns == {"easting", "northing", "element_id", "distance"}

\* C17: after construction and after any sequence of load_variable, get_din,
\* get_din_std_dev, calculate_din_percentile and wfd_performance calls, the
\* transect has the points it was constructed with, in the same order, each
\* with the easting, northing, element ID and distance it had right after
\* construction, and the distances do not decrease along the points
C17_PointsFixedAfterConstruction ==
    constructed =>
        /\ NumRows(df) = Len(input.eastings)
        /\ \A i \in 1..NumRows(df) : \A name \in BaseColumns :
              /\ HasColumn(df, name)
              /\ Column(df, name)[i] = Column(ConstructedTable, name)[i]
        /\ \A i \in 1..NumRows(df) : \A j \in i..NumRows(df) :
              /\ ~IsNa(Column(df, "distance")[i])
              /\ Column(df, "distance")[i].val <= Column(df, "distance")[j].val

\* the step is a call of wfd_performance
WfdStep == calls' = calls + 1 /\ lastCall'.op = "wfd_performance"

WfdColumns == {"WFD High", "WFD Good", "WFD Moderate", "WFD Poor"}

\* the column holds the constant (in units of 0.00001) at every point of d
HoldsEverywhere(d, name, value) ==
    /\ HasColumn(d, name)
    /\ Len(Column(d, name)) = Len(input.eastings)
    /\ \A i \in 1..Len(Column(d, name)) : Column(d, name)[i] = Num(value)

\* C18: wfd_performance attaches the four threshold columns with the same
\* constant at every point (High 0.282, Good 3.807, Moderate 5.7105, Poor
\* 8.56575), whatever was loaded and whether or not the points have element
\* IDs, and leaves every other column unchanged
C18_WfdThresholdsAttached ==
    [][WfdStep =>
        /\ lastCall'.raised = "none" /\ lastCall'.flag
        /\ HoldsEverywhere(df', "WFD High", 28200)
        /\ HoldsEverywhere(df', "WFD Good", 380700)
        /\ HoldsEverywhere(df', "WFD Moderate", 571050)
        /\ HoldsEverywhere(df', "WFD Poor", 856575)
        /\ ColumnNames(df') = ColumnNames(df) \cup WfdColumns
        /\ \A name \in ColumnNames(df) \ WfdColumns :
              Column(df', name) = Column(df, name)
    ]_vars

\* the thresholds were attached to a transect with a point that has no element
\* ID, after the mean DIN had been derived
C18_Witness ==
    /\ lastCall.op = "wfd_performance"
    /\ NumRows(df) = 2
    /\ \E i \in 1..NumRows(df) : IsNa(Column(df, "element_id")[i])
    /\ HasColumn(df, "mean_din")
    /\ \A name \in WfdColumns : HasColumn(df, name)
    /\ Column(df, "WFD Poor") = <<Num(856575), Num(856575)>>

----------------------------------------------------------------------------
(* Properties: dataset handles and dataset files *)

LookupCall == lastCall.op \in {"find_element_from_coordinates", "get_value_for_element"}

\* C19: every call of find_element_from_coordinates and get_value_for_element
\* has released each dataset handle it acquired by the time it ends, whatever
\* its outcome: value found, not found, variable absent, element ID out of
\* range, an exception during the scan
C19_LookupReleasesItsHandle ==
    LookupCall =>
        /\ lastCall.geomCloses = lastCall.geomOpens
        /\ lastCall.statCloses = lastCall.statOpens

\* the element lookups and the constructor raise when the geometry file cannot
\* be opened, and open nothing
GeometryFailureIsFatal ==
    /\ (lastCall.op \in {"find_element_from_coordinates",
                         "find_element_from_coordinates_full_scan"} /\ ~geomReadable)
            => (lastCall.raised = "OSError" /\ lastCall.geomOpens = 0)
    /\ (lastCall.op = "__init__" /\ ~geomReadable
        /\ Len(lastCall.eastings) = Len(lastCall.northings) /\ Len(lastCall.eastings) > 0)
            => (lastCall.raised = "OSError" /\ lastCall.geomOpens = 0 /\ ~constructed)

\* the value lookup, and load_variable when it looks a value up, raise when the
\* statistics file cannot be opened
ValueFailureIsFatal ==
    /\ (lastCall.op = "get_value_for_element" /\ ~statReadable)
            => (lastCall.raised = "OSError" /\ lastCall.statOpens = 0)
    /\ (lastCall.op = "load_variable" /\ ~statReadable /\ lastCall.queried # {})
            => (lastCall.raised = "OSError" /\ lastCall.statOpens = 0)

\* listing the variables raises when the statistics file cannot be opened
ListingFailureIsFatal ==
    (lastCall.op = "list_available_variables" /\ ~statReadable)
        => lastCall.raised = "OSError"

\* C20: a geometry or statistics file that cannot be opened is a fatal failure
\* of every operation that opens it (element lookup, value lookup, variable
\* loading, listing the available variables): the operation raises, it does not
\* return a null or empty result, and it does not open the file again
C20_UnreadableDatasetIsFatal ==
    /\ GeometryFailureIsFatal
    /\ ValueFailureIsFatal
    /\ ListingFailureIsFatal

----------------------------------------------------------------------------
(* Properties: the pre-filtered locator against the full scan *)

\* what the full scan of eastings_to_graph.py returns for the query point
FullScanResult ==
    find_element_from_coordinates_full_scan(input.point[1], input.point[2],
                                            mesh, geomReadable).ret

\* element k has a non-padding node at distance 100 or less from the query point
HasNodeWithinHundred(k) ==
    \E i \in 1..Len(ElementNodes(k)) :
        LET dx == mesh.x[ElementNodes(k)[i]] - input.point[1]
            dy == mesh.y[ElementNodes(k)[i]] - input.point[2]
        IN  dx * dx + dy * dy <= 100 * 100

\* C21: for every mesh and query point the pre-filtered locator agrees with the
\* full scan: where the full scan finds nothing it finds nothing; where the
\* full scan finds element e and e has a valid node within 100 of the point
\* (exactly 100 included) it returns e; and it never returns an element that
\* has no node within 100 of the point
C21_FilteredLocatorAgreesWithFullScan ==
    (FilteredCall /\ geomReadable) =>
        /\ lastCall.raised = "none"
        /\ FullScanResult = None => lastCall.ret = None
        /\ (FullScanResult # None /\ HasNodeWithinHundred(FullScanResult.val))
                => lastCall.ret = FullScanResult
        /\ lastCall.ret # None => HasNodeWithinHundred(lastCall.ret.val)

\* the pre-filtered locator returned the element the full scan finds, an
\* element whose nearest node is at exactly 100 from the point
C21_Witness ==
    /\ FilteredCall
    /\ lastCall.ret # None
    /\ lastCall.ret = FullScanResult
    /\ HasNodeWithinHundred(lastCall.ret.val)
    /\ \A i \in 1..Len(ElementNodes(lastCall.ret.val)) :
          LET dx == mesh.x[ElementNodes(lastCall.ret.val)[i]] - input.point[1]
              dy == mesh.y[ElementNodes(lastCall.ret.val)[i]] - input.point[2]
          IN  dx * dx + dy * dy >= 100 * 100

\* the full scan finds an element all of whose nodes are beyond 100, and the
\* pre-filtered locator finds nothing
C21_WitnessBeyondRadius ==
    /\ FilteredCall
    /\ lastCall.ret = None
    /\ FullScanResult # None
    /\ ~HasNodeWithinHundred(FullScanResult.val)

----------------------------------------------------------------------------
(* Properties: the table of a constructed transect *)

\* the constructor has just returned an object
JustConstructed == constructed /\ lastCall.op = "__init__" /\ lastCall.raised = "none"

\* the table has one row per input point, in input order, and exactly the
\* columns easting, northing, element_id, distance, in that order, the
\* distances being the cumulative path distances of the input
TableAsSpecified ==
    /\ Len(df) = 4
    /\ df[1].name = "easting" /\ df[2].name = "northing"
    /\ df[3].name = "element_id" /\ df[4].name = "distance"
    /\ \A c \in 1..4 : Len(df[c].vals) = Len(lastCall.eastings)
    /\ df[1].vals = NumSeq(lastCall.eastings)
    /\ df[2].vals = NumSeq(lastCall.northings)
    /\ df[4].vals = NumSeq(calculate_path_distances(lastCall.eastings,
                                                    lastCall.northings).ret)

\* C22: for every pair of equal-length coordinate lists, the empty one
\* included, a successfully constructed RiverTransect has a table with one row
\* per input point in input order and exactly the columns easting, northing,
\* element_id, distance in that order
C22_ConstructedTableColumns ==
    JustConstructed => TableAsSpecified

====
